---- MODULE Spec2Model ----
(***************************************************************************)
(* Retrieval-augmented answer pipeline with an approximate-match semantic  *)
(* cache (src/utils.py, src/app.py).                                       *)
(*                                                                         *)
(* Modelling conventions:                                                  *)
(*  - an embedding is a sequence of integers; a cosine similarity is kept  *)
(*    exactly, as the pair [num, den2] standing for num / sqrt(den2), so   *)
(*    that comparisons are those of real arithmetic (float rounding is     *)
(*    not modelled);                                                       *)
(*  - the collection's cache documents are the sequence cache, in the      *)
(*    store's natural order, which is the order find() returns them in     *)
(*    when no sort is given; insert_one may place a document anywhere in   *)
(*    that order, since the store does not promise insertion order;        *)
(*  - an optional value (dict | None) is a sequence of length 0 or 1;      *)
(*  - each Streamlit session runs the script of app.py in its own thread:  *)
(*    one action per blocking call of the chat handler.                    *)
(***************************************************************************)
EXTENDS Integers, Sequences, FiniteSets, TLC

VARIABLES
    cache,              \* documents with is_cache = True, in natural order
    now,                \* datetime.utcnow(), in seconds
    pc,                 \* per session: the stage the chat handler is at
    messages,           \* st.session_state.messages
    cache_stats,        \* st.session_state.cache_stats
    processed_image_id, \* st.session_state.processed_image_id
    prompt,             \* the chat input of the current run
    query_embedding,    \* app.py:148
    cache_entries,      \* utils.py:108, the candidates find() gave the lookup, if it returned
    cutoff_time,        \* utils.py:106, the cutoff of the last lookup
    cached_entry,       \* app.py:155
    vector_matches,     \* app.py:166
    relational_context, \* app.py:167
    summary,            \* utils.py:240
    summary_prompt,     \* utils.py:194, the turns the summary is asked of
    prompt_for_llm,     \* app.py:168
    gen,                \* the generation client call in progress or last returned
    response,           \* app.py:158 / app.py:175 / app.py:84
    uploaded_file,      \* app.py:79, the image being analysed
    stages              \* the operations run for the current query, in order

vars == <<cache, now, pc, messages, cache_stats, processed_image_id, prompt,
          query_embedding, cache_entries, cutoff_time, cached_entry,
          vector_matches, relational_context, summary, summary_prompt,
          prompt_for_llm, gen, response, uploaded_file, stages>>

-----------------------------------------------------------------------------
(* Program constants *)

CACHE_TTL_SECONDS == 3600
SIMILARITY_THRESHOLD_NUM == 92
SIMILARITY_THRESHOLD_DEN == 100
SCAN_LIMIT == 50
TEXT_MAX_RETRIES == 2
VISION_MAX_RETRIES == 3
HISTORY_THRESHOLD == 6
HISTORY_TAIL == 6
SUMMARY_MIN_HISTORY == 5
SUMMARY_HEAD == 6

TEXT_TIMEOUT_FALLBACK == "Sorry, the API is taking too long. Please try again."
TEXT_ERROR_FALLBACK == "Sorry, an error occurred while contacting the AI. Please try again."
VISION_FALLBACK == "Sorry, I was unable to analyze the image after multiple attempts. Please try uploading a different image."

(* Bounds of the model *)

MaxQueries == 1      \* chat inputs of a session
MaxTicks == 2        \* clock advances, each of one TTL
ExtraEntries == 1    \* cache documents beyond the scan limit (SpecScan)
MaxSmallCache == 2   \* length of the short caches a lookup is tried on (SpecScan)
MaxHistory == 8      \* turns already in the conversation when a query arrives (SpecHist)

-----------------------------------------------------------------------------
(* Inputs *)

BLANK_QUERY == "   "
Q_PHO == "Best pho in Hanoi?"
Q_BEACH == "Quiet beach near Da Nang?"
Q_NOODLE == "Where is good noodle soup in Hanoi?"

Queries == {Q_PHO, Q_BEACH, Q_NOODLE, BLANK_QUERY}

\* text.strip() of a chat input: only the blank input strips to nothing.
IsBlank(text) == text = BLANK_QUERY

\* The embedding backend's vector for a text (the same text gives the same
\* vector).  sim(PHO, NOODLE) ~ 0.949, sim(NOODLE, BEACH) ~ 0.965,
\* sim(PHO, BEACH) ~ 0.832.
EmbeddingOf(text) ==
    CASE text = Q_PHO    -> <<1, 0>>
      [] text = Q_NOODLE -> <<3, 1>>
      [] text = Q_BEACH  -> <<3, 2>>
      [] OTHER           -> <<0, 1>>

\* Texts the generation backend may answer with.
Answers == {"Try Pho Gia Truyen near Hoan Kiem Lake."}
\* a summary as the backend words it, with the white space around it
Summaries == {" The traveler wants food tips. "}
ImageTexts == {"This is a bowl of pho."}
Images == {"img1"}

Outcomes == {"ok", "timeout", "error"}

None == <<>>
Some(x) == <<x>>

-----------------------------------------------------------------------------
(* utils.py: cosine similarity *)

RECURSIVE Dot(_, _, _)
Dot(v1, v2, i) ==
    IF i > Len(v1) \/ i > Len(v2) THEN 0
    ELSE v1[i] * v2[i] + Dot(v1, v2, i + 1)

SimZero == [num |-> 0, den2 |-> 1]

\* the guard of line 87 without its test of the lengths: zip stops at the
\* shorter vector
cosine_similarity_NoLengthCheck(vec1, vec2) ==
    IF Len(vec1) = 0 \/ Len(vec2) = 0 THEN SimZero
    ELSE LET dot_product == Dot(vec1, vec2, 1)
             m1 == Dot(vec1, vec1, 1)
             m2 == Dot(vec2, vec2, 1)
         IN  IF m1 = 0 \/ m2 = 0 THEN SimZero
             ELSE [num |-> dot_product, den2 |-> m1 * m2]

cosine_similarity(vec1, vec2) ==
    IF Len(vec1) = 0 \/ Len(vec2) = 0 \/ Len(vec1) # Len(vec2) THEN SimZero
    ELSE LET dot_product == Dot(vec1, vec2, 1)
             m1 == Dot(vec1, vec1, 1)
             m2 == Dot(vec2, vec2, 1)
         IN  IF m1 = 0 \/ m2 = 0 THEN SimZero
             ELSE [num |-> dot_product, den2 |-> m1 * m2]

\* a > b for similarities a = a.num / sqrt(a.den2), b likewise
SimGreater(a, b) ==
    CASE a.num > 0 /\ b.num <= 0  -> TRUE
      [] a.num <= 0 /\ b.num > 0  -> FALSE
      [] a.num > 0 /\ b.num > 0   -> a.num * a.num * b.den2 > b.num * b.num * a.den2
      [] OTHER                    -> a.num * a.num * b.den2 < b.num * b.num * a.den2

\* a >= SIMILARITY_THRESHOLD
SimAtLeastThreshold(a) ==
    /\ a.num > 0
    /\ a.num * a.num * SIMILARITY_THRESHOLD_DEN * SIMILARITY_THRESHOLD_DEN
         >= SIMILARITY_THRESHOLD_NUM * SIMILARITY_THRESHOLD_NUM * a.den2

-----------------------------------------------------------------------------
(* utils.py: find_cached_similar_response *)

Take(s, n) == IF Len(s) <= n THEN s ELSE SubSeq(s, 1, n)

\* the find without its cached_at filter
InWindow_NoTtl(entry, cutoff) == entry.is_cache

InWindow(entry, cutoff) == entry.is_cache /\ entry.cached_at >= cutoff

\* the find with its limit one short
FindCacheEntries_ShortLimit(coll, cutoff) ==
    Take(SelectSeq(coll, LAMBDA e : InWindow(e, cutoff)), SCAN_LIMIT - 1)

\* collection.find({is_cache: True, cached_at: {$gte: cutoff}}).limit(50)
FindCacheEntries(coll, cutoff) ==
    Take(SelectSeq(coll, LAMBDA e : InWindow(e, cutoff)), SCAN_LIMIT)

\* the for loop of lines 119-124; best is [sim, match]
RECURSIVE ScanEntries(_, _, _, _)
ScanEntries(q_emb, entries, i, best) ==
    IF i > Len(entries) THEN best
    ELSE LET entry == entries[i]
             sim == cosine_similarity(q_emb, entry.query_embedding)
         IN  IF entry.has_query_embedding /\ SimGreater(sim, best.sim)
             THEN ScanEntries(q_emb, entries, i + 1, [sim |-> sim, match |-> Some(entry)])
             ELSE ScanEntries(q_emb, entries, i + 1, best)

BestOf(q_emb, entries) ==
    ScanEntries(q_emb, entries, 1, [sim |-> SimZero, match |-> None])

\* the best match returned without the threshold test
PickMatch_NoThreshold(best) == best.match

\* lines 126-129
PickMatch(best) ==
    IF SimAtLeastThreshold(best.sim) /\ best.match # None THEN best.match ELSE None

\* find_ok = FALSE: the find raised, and the except clause returns None
find_cached_similar_response(q_emb, coll, t, find_ok) ==
    IF find_ok
    THEN PickMatch(BestOf(q_emb, FindCacheEntries(coll, t - CACHE_TTL_SECONDS)))
    ELSE None

-----------------------------------------------------------------------------
(* utils.py: cache_response *)

\* the entry stored without the query's embedding
CacheEntry_NoEmbedding(query, q_emb, resp, t) ==
    [is_cache |-> TRUE, query |-> query, query_embedding |-> <<>>,
     has_query_embedding |-> TRUE, response |-> resp, cached_at |-> t]

CacheEntry(query, q_emb, resp, t) ==
    [is_cache |-> TRUE, query |-> query, query_embedding |-> q_emb,
     has_query_embedding |-> TRUE, response |-> resp, cached_at |-> t]

InsertAt(s, i, x) == SubSeq(s, 1, i - 1) \o <<x>> \o SubSeq(s, i, Len(s))

RECURSIVE ReplaceQuery(_, _, _)
ReplaceQuery(coll, i, entry) ==
    IF i > Len(coll) THEN coll
    ELSE IF coll[i].query = entry.query THEN [coll EXCEPT ![i] = entry]
    ELSE ReplaceQuery(coll, i + 1, entry)

\* the write as an upsert keyed by the query: an entry stored for the same
\* query is overwritten
cache_response_Upsert(query, q_emb, resp, coll, t, at, insert_ok) ==
    LET entry == [is_cache |-> TRUE, query |-> query, query_embedding |-> q_emb,
                  has_query_embedding |-> TRUE, response |-> resp, cached_at |-> t]
    IN  IF ~insert_ok THEN coll
        ELSE IF \E i \in 1..Len(coll) : coll[i].query = query
             THEN ReplaceQuery(coll, 1, entry)
             ELSE InsertAt(coll, at, entry)

\* insert_ok = FALSE: insert_one raised, and the except clause swallows it
cache_response(query, q_emb, resp, coll, t, at, insert_ok) ==
    IF insert_ok THEN InsertAt(coll, at, CacheEntry(query, q_emb, resp, t)) ELSE coll

-----------------------------------------------------------------------------
(* utils.py: get_embedding, mongodb_vector_search, fetch_relational_context *)

\* embed_ok = FALSE: genai.embed_content raised
get_embedding(text, embed_ok) ==
    IF IsBlank(text) THEN <<>>
    ELSE IF embed_ok THEN EmbeddingOf(text) ELSE <<>>

KB_PHO == [id |-> "pho_gia_truyen", name |-> "Pho Gia Truyen",
           has_connections |-> FALSE, connections |-> <<>>]
KB_HANOI == [id |-> "hanoi", name |-> "Hanoi",
             has_connections |-> TRUE, connections |-> <<[target |-> "pho_gia_truyen"]>>]
KnowledgeBase == {KB_PHO, KB_HANOI}

\* what $vectorSearch may return for a query vector
VectorHits == {<<>>, <<KB_PHO>>, <<KB_HANOI>>}

\* search_ok = FALSE: collection.aggregate raised
mongodb_vector_search(q_emb, hits, search_ok) ==
    IF Len(q_emb) = 0 THEN <<>>
    ELSE IF search_ok THEN hits ELSE <<>>

\* line 56 is reached: the aggregate was called and raised
VectorSearchFailed(q_emb, search_ok) == Len(q_emb) # 0 /\ ~search_ok

RECURSIVE TargetIds(_, _)
TargetIds(search_results, i) ==
    IF i > Len(search_results) THEN {}
    ELSE LET doc == search_results[i]
         IN  (IF doc.has_connections
              THEN {doc.connections[j].target : j \in 1..Len(doc.connections)}
              ELSE {}) \cup TargetIds(search_results, i + 1)

RECURSIVE SeqOfSet(_)
SeqOfSet(S) ==
    IF S = {} THEN <<>>
    ELSE LET x == CHOOSE y \in S : TRUE IN <<x>> \o SeqOfSet(S \ {x})

\* fetch_ok = FALSE: collection.find raised
fetch_relational_context(search_results, fetch_ok) ==
    IF Len(search_results) = 0 THEN <<>>
    ELSE LET target_ids == TargetIds(search_results, 1)
         IN  IF target_ids = {} THEN <<>>
             ELSE IF fetch_ok
                  THEN SeqOfSet({r \in KnowledgeBase : r.id \in target_ids})
                  ELSE <<>>

\* line 77 is reached: the find was called and raised
FetchFailed(search_results, fetch_ok) ==
    /\ Len(search_results) # 0
    /\ TargetIds(search_results, 1) # {}
    /\ ~fetch_ok

-----------------------------------------------------------------------------
(* utils.py: call_gemini_rest, describe_image.  A call is the record       *)
(* [kind, max_retries, attempt, events, status, result]: attempt is the    *)
(* loop variable, events the requests made and the sleeps taken, in order. *)

GenIdle ==
    [kind |-> "none", max_retries |-> 0, attempt |-> 0, events |-> <<>>,
     status |-> "idle", result |-> ""]

ExhaustedText(kind) == IF kind = "vision" THEN VISION_FALLBACK ELSE TEXT_ERROR_FALLBACK

\* entering the for loop; range(max_retries) is empty when max_retries <= 0
GenStart(kind, max_retries) ==
    IF max_retries <= 0
    THEN [kind |-> kind, max_retries |-> max_retries, attempt |-> 0, events |-> <<>>,
          status |-> "returned", result |-> ExhaustedText(kind)]
    ELSE [kind |-> kind, max_retries |-> max_retries, attempt |-> 0, events |-> <<>>,
          status |-> "running", result |-> ""]

GenReturn(g, ev, text) ==
    [g EXCEPT !.events = g.events \o ev, !.status = "returned", !.result = text]

GenRetry(g, ev) ==
    [g EXCEPT !.events = g.events \o ev, !.attempt = g.attempt + 1]

\* the loop giving up at the first timeout instead of retrying
call_gemini_rest_attempt_NoRetry(g, outcome, text) ==
    LET more == g.attempt < g.max_retries - 1
    IN  CASE outcome = "ok" -> GenReturn(g, <<"ok">>, text)
          [] outcome = "timeout" -> GenReturn(g, <<"timeout">>, TEXT_TIMEOUT_FALLBACK)
          [] OTHER ->
                IF more THEN GenRetry(g, <<"error", "sleep_1s">>)
                ELSE GenReturn(g, <<"error">>, TEXT_ERROR_FALLBACK)

\* the loop giving up at the first failure that is not a timeout
call_gemini_rest_attempt_ErrorEnds(g, outcome, text) ==
    LET more == g.attempt < g.max_retries - 1
    IN  CASE outcome = "ok" -> GenReturn(g, <<"ok">>, text)
          [] outcome = "timeout" ->
                IF more THEN GenRetry(g, <<"timeout", "sleep_2s">>)
                ELSE GenReturn(g, <<"timeout">>, TEXT_TIMEOUT_FALLBACK)
          [] OTHER -> GenReturn(g, <<"error">>, TEXT_ERROR_FALLBACK)

\* the loop sleeping after every failed request, the last one included
call_gemini_rest_attempt_SleepsAfterLast(g, outcome, text) ==
    LET more == g.attempt < g.max_retries - 1
    IN  CASE outcome = "ok" -> GenReturn(g, <<"ok">>, text)
          [] outcome = "timeout" ->
                IF more THEN GenRetry(g, <<"timeout", "sleep_2s">>)
                ELSE GenReturn(g, <<"timeout", "sleep_2s">>, TEXT_TIMEOUT_FALLBACK)
          [] OTHER ->
                IF more THEN GenRetry(g, <<"error", "sleep_1s">>)
                ELSE GenReturn(g, <<"error", "sleep_1s">>, TEXT_ERROR_FALLBACK)

\* one iteration of the loop of call_gemini_rest (lines 169-186)
call_gemini_rest_attempt(g, outcome, text) ==
    LET more == g.attempt < g.max_retries - 1
    IN  CASE outcome = "ok" -> GenReturn(g, <<"ok">>, text)
          [] outcome = "timeout" ->
                IF more THEN GenRetry(g, <<"timeout", "sleep_2s">>)
                ELSE GenReturn(g, <<"timeout">>, TEXT_TIMEOUT_FALLBACK)
          [] OTHER ->
                IF more THEN GenRetry(g, <<"error", "sleep_1s">>)
                ELSE GenReturn(g, <<"error">>, TEXT_ERROR_FALLBACK)

\* one iteration of the loop of describe_image (lines 303-320)
describe_image_attempt(g, outcome, text) ==
    LET more == g.attempt < g.max_retries - 1
    IN  CASE outcome = "ok" -> GenReturn(g, <<"ok">>, text)
          [] outcome = "timeout" ->
                IF more THEN GenRetry(g, <<"timeout", "sleep_2s">>)
                ELSE GenReturn(g, <<"timeout">>, VISION_FALLBACK)
          [] OTHER ->
                IF more THEN GenRetry(g, <<"error", "sleep_2s">>)
                ELSE GenReturn(g, <<"error">>, VISION_FALLBACK)

\* the call in progress, or a fresh one when none is
Running(g, kind, max_retries) ==
    IF g.status = "running" /\ g.kind = kind THEN g ELSE GenStart(kind, max_retries)

Requests(g) == SelectSeq(g.events, LAMBDA e : e \in Outcomes)

-----------------------------------------------------------------------------
(* utils.py: build_prompt, summarize_conversation_context *)

Turn(role, content) == [role |-> role, content |-> content]

RenderTurn(msg) ==
    IF msg.role = "user" THEN <<"User", msg.content>> ELSE <<"Assistant", msg.content>>

RenderTurns(history) == [i \in 1..Len(history) |-> RenderTurn(history[i])]

LastN(s, n) == IF Len(s) <= n THEN s ELSE SubSeq(s, Len(s) - n + 1, Len(s))

\* the test of line 239 written with >= for >
NeedsSummary_Inclusive(history) == Len(history) >= HISTORY_THRESHOLD

NeedsSummary(history) == Len(history) > HISTORY_THRESHOLD

\* lines 239-250: the history section; the_summary is what
\* summarize_conversation_context returned
HistorySection(history, the_summary) ==
    IF NeedsSummary(history)
    THEN [summary |-> Some(the_summary), turns |-> RenderTurns(LastN(history, HISTORY_TAIL))]
    ELSE IF Len(history) = 0
         THEN [summary |-> None, turns |-> <<"No previous conversation.">>]
         ELSE [summary |-> None, turns |-> RenderTurns(history)]

ContextSection(items, placeholder) ==
    IF Len(items) = 0 THEN <<placeholder>>
    ELSE [i \in 1..Len(items) |-> items[i].name]

build_prompt(user_query, vec_results, rel_results, history, the_summary) ==
    [history |-> HistorySection(history, the_summary),
     vec_context |-> ContextSection(vec_results, "No search results found."),
     rel_context |-> ContextSection(rel_results, "No related items found."),
     question |-> user_query]

\* lines 194-199: the text the summary is asked of
SummaryInput(history) == Take(history, SUMMARY_HEAD)

\* lines 195-197: an assistant turn is written out twice, once under
\* "User" and once under "Assistant"
SummaryLines(msg) ==
    IF msg.role = "assistant"
    THEN <<<<"User", msg.content>>, <<"Assistant", msg.content>>>>
    ELSE <<<<"User", msg.content>>>>

RECURSIVE JoinLines(_, _)
JoinLines(msgs, i) ==
    IF i > Len(msgs) THEN <<>> ELSE SummaryLines(msgs[i]) \o JoinLines(msgs, i + 1)

SummaryText(history) == JoinLines(SummaryInput(history), 1)

\* summarize_conversation_context makes a generation call unless the
\* history is shorter than 5 turns
SummaryCalls(history) == Len(history) >= SUMMARY_MIN_HISTORY

\* line 213: summary.strip(); the fallback strings have no outer white space
Strip(text) ==
    IF text = " The traveler wants food tips. " THEN "The traveler wants food tips."
    ELSE text

-----------------------------------------------------------------------------
(* app.py: the script run of one session *)

Put(f, s, v) == [f EXCEPT ![s] = v]

Last(s) == s[Len(s)]

ImageNote(file) == IF file = "img1" THEN "[Image Uploaded: img1]" ELSE "[Image Uploaded]"

IsChatInput(msg) == msg.role = "user" /\ msg.content \in Queries

ChatInputs(s) == Len(SelectSeq(messages[s], IsChatInput))

\* the locals of a script run, which the next run starts afresh
ResetLocals(s) ==
    /\ query_embedding' = Put(query_embedding, s, <<>>)
    /\ cache_entries' = Put(cache_entries, s, None)
    /\ cutoff_time' = Put(cutoff_time, s, 0)
    /\ cached_entry' = Put(cached_entry, s, None)
    /\ vector_matches' = Put(vector_matches, s, <<>>)
    /\ relational_context' = Put(relational_context, s, <<>>)
    /\ summary' = Put(summary, s, "")
    /\ summary_prompt' = Put(summary_prompt, s, None)
    /\ prompt_for_llm' = Put(prompt_for_llm, s, None)
    /\ gen' = Put(gen, s, GenIdle)

InitSessions(S) ==
    /\ pc = [s \in S |-> "Idle"]
    /\ messages = [s \in S |-> <<>>]
    /\ cache_stats = [s \in S |-> [hits |-> 0, misses |-> 0]]
    /\ processed_image_id = [s \in S |-> None]
    /\ prompt = [s \in S |-> ""]
    /\ query_embedding = [s \in S |-> <<>>]
    /\ cache_entries = [s \in S |-> None]
    /\ cutoff_time = [s \in S |-> 0]
    /\ cached_entry = [s \in S |-> None]
    /\ vector_matches = [s \in S |-> <<>>]
    /\ relational_context = [s \in S |-> <<>>]
    /\ summary = [s \in S |-> ""]
    /\ summary_prompt = [s \in S |-> None]
    /\ prompt_for_llm = [s \in S |-> None]
    /\ gen = [s \in S |-> GenIdle]
    /\ response = [s \in S |-> ""]
    /\ uploaded_file = [s \in S |-> None]
    /\ stages = [s \in S |-> <<>>]

\* app.py:139-140: a chat input arrives; the user turn is appended
Submit(s, q) ==
    /\ pc[s] \in {"Idle", "Error"}
    /\ ChatInputs(s) < MaxQueries
    /\ messages' = Put(messages, s, Append(messages[s], Turn("user", q)))
    /\ pc' = Put(pc, s, "Embedding")
    /\ ResetLocals(s)
    /\ prompt' = Put(prompt, s, q)
    /\ response' = Put(response, s, "")
    /\ stages' = Put(stages, s, <<>>)
    /\ UNCHANGED <<cache, now, cache_stats, processed_image_id, uploaded_file>>

\* the run going on to the lookup whatever the embedding is
Embed_Continues(s, embed_ok) ==
    /\ pc[s] = "Embedding"
    /\ UNCHANGED summary_prompt
    /\ LET emb == get_embedding(prompt[s], embed_ok)
       IN  /\ query_embedding' = Put(query_embedding, s, emb)
           /\ pc' = Put(pc, s, "CacheLookup")
    /\ stages' = Put(stages, s, Append(stages[s], "embed"))
    /\ UNCHANGED <<cache, now, messages, cache_stats, processed_image_id, prompt,
                   cache_entries, cutoff_time, cached_entry, vector_matches,
                   relational_context, summary, prompt_for_llm, gen, response,
                   uploaded_file>>

\* the handler asking for the embedding again until it gets one
Embed_WaitsForEmbedding(s, embed_ok) ==
    /\ pc[s] = "Embedding"
    /\ UNCHANGED summary_prompt
    /\ LET emb == get_embedding(prompt[s], embed_ok)
       IN  /\ query_embedding' = Put(query_embedding, s, emb)
           /\ pc' = Put(pc, s, IF Len(emb) = 0 THEN "Embedding" ELSE "CacheLookup")
           /\ stages' = Put(stages, s,
                            IF Len(emb) = 0 THEN stages[s] ELSE Append(stages[s], "embed"))
    /\ UNCHANGED <<cache, now, messages, cache_stats, processed_image_id, prompt,
                   cache_entries, cutoff_time, cached_entry, vector_matches,
                   relational_context, summary, prompt_for_llm, gen, response,
                   uploaded_file>>

\* app.py:148-152: get_embedding; an empty vector stops the run
Embed(s, embed_ok) ==
    /\ pc[s] = "Embedding"
    /\ UNCHANGED summary_prompt
    /\ LET emb == get_embedding(prompt[s], embed_ok)
       IN  /\ query_embedding' = Put(query_embedding, s, emb)
           /\ pc' = Put(pc, s, IF Len(emb) = 0 THEN "Error" ELSE "CacheLookup")
    /\ stages' = Put(stages, s, Append(stages[s], "embed"))
    /\ UNCHANGED <<cache, now, messages, cache_stats, processed_image_id, prompt,
                   cache_entries, cutoff_time, cached_entry, vector_matches,
                   relational_context, summary, prompt_for_llm, gen, response,
                   uploaded_file>>

\* the run going on to the full pipeline although the lookup hit
CacheLookup_IgnoresHit(s, find_ok) ==
    /\ pc[s] = "CacheLookup"
    /\ UNCHANGED summary_prompt
    /\ LET cutoff == now - CACHE_TTL_SECONDS
           found == find_cached_similar_response(query_embedding[s], cache, now, find_ok)
       IN  /\ cutoff_time' = Put(cutoff_time, s, cutoff)
           /\ cache_entries' =
                 Put(cache_entries, s,
                     IF find_ok THEN Some(FindCacheEntries(cache, cutoff)) ELSE None)
           /\ cached_entry' = Put(cached_entry, s, found)
           /\ IF found # None
              THEN /\ response' = Put(response, s, found[1].response)
                   /\ cache_stats' =
                         Put(cache_stats, s, [cache_stats[s] EXCEPT !.hits = @ + 1])
                   /\ pc' = Put(pc, s, "Retrieving")
              ELSE /\ response' = response
                   /\ cache_stats' =
                         Put(cache_stats, s, [cache_stats[s] EXCEPT !.misses = @ + 1])
                   /\ pc' = Put(pc, s, "Retrieving")
    /\ stages' = Put(stages, s, Append(stages[s], "cache_lookup"))
    /\ UNCHANGED <<cache, now, messages, processed_image_id, prompt, query_embedding,
                   vector_matches, relational_context, summary, prompt_for_llm, gen,
                   uploaded_file>>

\* the lookup deleting the entries it finds expired
CacheLookup_PurgesExpired(s, find_ok) ==
    /\ pc[s] = "CacheLookup"
    /\ UNCHANGED summary_prompt
    /\ LET cutoff == now - CACHE_TTL_SECONDS
           found == find_cached_similar_response(query_embedding[s], cache, now, find_ok)
       IN  /\ cutoff_time' = Put(cutoff_time, s, cutoff)
           /\ cache_entries' =
                 Put(cache_entries, s,
                     IF find_ok THEN Some(FindCacheEntries(cache, cutoff)) ELSE None)
           /\ cached_entry' = Put(cached_entry, s, found)
           /\ cache' = SelectSeq(cache, LAMBDA e : e.cached_at >= cutoff)
           /\ IF found # None
              THEN /\ response' = Put(response, s, found[1].response)
                   /\ cache_stats' =
                         Put(cache_stats, s, [cache_stats[s] EXCEPT !.hits = @ + 1])
                   /\ pc' = Put(pc, s, "Done")
              ELSE /\ response' = response
                   /\ cache_stats' =
                         Put(cache_stats, s, [cache_stats[s] EXCEPT !.misses = @ + 1])
                   /\ pc' = Put(pc, s, "Retrieving")
    /\ stages' = Put(stages, s, Append(stages[s], "cache_lookup"))
    /\ UNCHANGED <<now, messages, processed_image_id, prompt, query_embedding,
                   vector_matches, relational_context, summary, prompt_for_llm, gen,
                   uploaded_file>>

\* app.py:155-164: the cache lookup and the branch on its result
CacheLookup(s, find_ok) ==
    /\ pc[s] = "CacheLookup"
    /\ UNCHANGED summary_prompt
    /\ LET cutoff == now - CACHE_TTL_SECONDS
           found == find_cached_similar_response(query_embedding[s], cache, now, find_ok)
       IN  /\ cutoff_time' = Put(cutoff_time, s, cutoff)
           /\ cache_entries' =
                 Put(cache_entries, s,
                     IF find_ok THEN Some(FindCacheEntries(cache, cutoff)) ELSE None)
           /\ cached_entry' = Put(cached_entry, s, found)
           /\ IF found # None
              THEN /\ response' = Put(response, s, found[1].response)
                   /\ cache_stats' =
                         Put(cache_stats, s, [cache_stats[s] EXCEPT !.hits = @ + 1])
                   /\ pc' = Put(pc, s, "Done")
              ELSE /\ response' = response
                   /\ cache_stats' =
                         Put(cache_stats, s, [cache_stats[s] EXCEPT !.misses = @ + 1])
                   /\ pc' = Put(pc, s, "Retrieving")
    /\ stages' = Put(stages, s, Append(stages[s], "cache_lookup"))
    /\ UNCHANGED <<cache, now, messages, processed_image_id, prompt, query_embedding,
                   vector_matches, relational_context, summary, prompt_for_llm, gen,
                   uploaded_file>>

\* the exception of the aggregate call escaping mongodb_vector_search
VectorSearch_Raises(s, hits, search_ok) ==
    /\ pc[s] = "Retrieving"
    /\ vector_matches' =
          Put(vector_matches, s, mongodb_vector_search(query_embedding[s], hits, search_ok))
    /\ pc' = Put(pc, s, IF VectorSearchFailed(query_embedding[s], search_ok)
                        THEN "Crashed" ELSE "ContextFetch")
    /\ stages' = Put(stages, s, Append(stages[s], "vector_search"))
    /\ UNCHANGED <<cache, now, messages, cache_stats, processed_image_id, prompt,
                   query_embedding, cache_entries, cutoff_time, cached_entry,
                   relational_context, summary, summary_prompt, prompt_for_llm, gen,
                   response, uploaded_file>>

\* app.py:166
VectorSearch(s, hits, search_ok) ==
    /\ pc[s] = "Retrieving"
    /\ UNCHANGED summary_prompt
    /\ vector_matches' =
          Put(vector_matches, s, mongodb_vector_search(query_embedding[s], hits, search_ok))
    /\ pc' = Put(pc, s, "ContextFetch")
    /\ stages' = Put(stages, s,
                     Append(stages[s],
                            IF VectorSearchFailed(query_embedding[s], search_ok)
                            THEN "vector_search_error" ELSE "vector_search"))
    /\ UNCHANGED <<cache, now, messages, cache_stats, processed_image_id, prompt,
                   query_embedding, cache_entries, cutoff_time, cached_entry,
                   relational_context, summary, prompt_for_llm, gen, response,
                   uploaded_file>>

\* the handler skipping the relational fetch when the search found nothing
FetchContext_SkipsWhenEmpty(s, fetch_ok) ==
    /\ pc[s] = "ContextFetch"
    /\ UNCHANGED summary_prompt
    /\ relational_context' =
          Put(relational_context, s, fetch_relational_context(vector_matches[s], fetch_ok))
    /\ pc' = Put(pc, s, "PromptAssembly")
    /\ stages' = Put(stages, s,
                     IF vector_matches[s] = <<>> THEN stages[s]
                     ELSE Append(stages[s],
                                 IF FetchFailed(vector_matches[s], fetch_ok)
                                 THEN "relational_fetch_error" ELSE "relational_fetch"))
    /\ UNCHANGED <<cache, now, messages, cache_stats, processed_image_id, prompt,
                   query_embedding, cache_entries, cutoff_time, cached_entry,
                   vector_matches, summary, prompt_for_llm, gen, response,
                   uploaded_file>>

\* app.py:167
FetchContext(s, fetch_ok) ==
    /\ pc[s] = "ContextFetch"
    /\ UNCHANGED summary_prompt
    /\ relational_context' =
          Put(relational_context, s, fetch_relational_context(vector_matches[s], fetch_ok))
    /\ pc' = Put(pc, s, "PromptAssembly")
    /\ stages' = Put(stages, s,
                     Append(stages[s],
                            IF FetchFailed(vector_matches[s], fetch_ok)
                            THEN "relational_fetch_error" ELSE "relational_fetch"))
    /\ UNCHANGED <<cache, now, messages, cache_stats, processed_image_id, prompt,
                   query_embedding, cache_entries, cutoff_time, cached_entry,
                   vector_matches, summary, prompt_for_llm, gen, response,
                   uploaded_file>>

\* messages[:-1], the history build_prompt is given
History(s) == SubSeq(messages[s], 1, Len(messages[s]) - 1)

\* app.py:168-173: build_prompt, up to its summarization call when the
\* history is long, to its end otherwise
BuildPrompt(s) ==
    /\ pc[s] = "PromptAssembly"
    /\ IF NeedsSummary(History(s)) /\ SummaryCalls(History(s))
       THEN /\ pc' = Put(pc, s, "Summarizing")
            /\ prompt_for_llm' = prompt_for_llm
            /\ summary_prompt' = Put(summary_prompt, s, Some(SummaryText(History(s))))
       ELSE /\ pc' = Put(pc, s, "Generating")
            /\ summary_prompt' = summary_prompt
            /\ prompt_for_llm' =
                  Put(prompt_for_llm, s,
                      Some(build_prompt(prompt[s], vector_matches[s],
                                        relational_context[s], History(s), "")))
    /\ stages' = Put(stages, s, Append(stages[s], "build_prompt"))
    /\ UNCHANGED <<cache, now, messages, cache_stats, processed_image_id, prompt,
                   query_embedding, cache_entries, cutoff_time, cached_entry,
                   vector_matches, relational_context, summary, gen, response,
                   uploaded_file>>

\* a summarization that failed being asked again
SummarizeAttempt_AsksAgain(s, outcome, text) ==
    /\ pc[s] = "Summarizing"
    /\ UNCHANGED summary_prompt
    /\ LET g == call_gemini_rest_attempt(Running(gen[s], "summary", TEXT_MAX_RETRIES),
                                         outcome, text)
       IN  /\ gen' = Put(gen, s, g)
           /\ IF g.status = "returned" /\ outcome = "ok"
              THEN /\ summary' = Put(summary, s, Strip(g.result))
                   /\ prompt_for_llm' =
                         Put(prompt_for_llm, s,
                             Some(build_prompt(prompt[s], vector_matches[s],
                                               relational_context[s], History(s),
                                               Strip(g.result))))
                   /\ pc' = Put(pc, s, "Generating")
              ELSE UNCHANGED <<summary, prompt_for_llm, pc>>
    /\ stages' = Put(stages, s,
                     (IF gen[s].status = "running" THEN stages[s]
                      ELSE Append(stages[s], "summarize")) \o <<"summary_request">>)
    /\ UNCHANGED <<cache, now, messages, cache_stats, processed_image_id, prompt,
                   query_embedding, cache_entries, cutoff_time, cached_entry,
                   vector_matches, relational_context, response, uploaded_file>>

\* utils.py:212: one request of the summarization call; when the call
\* returns, build_prompt finishes with the summary
SummarizeAttempt(s, outcome, text) ==
    /\ pc[s] = "Summarizing"
    /\ UNCHANGED summary_prompt
    /\ LET g == call_gemini_rest_attempt(Running(gen[s], "summary", TEXT_MAX_RETRIES),
                                         outcome, text)
       IN  /\ gen' = Put(gen, s, g)
           /\ IF g.status = "returned"
              THEN /\ summary' = Put(summary, s, Strip(g.result))
                   /\ prompt_for_llm' =
                         Put(prompt_for_llm, s,
                             Some(build_prompt(prompt[s], vector_matches[s],
                                               relational_context[s], History(s),
                                               Strip(g.result))))
                   /\ pc' = Put(pc, s, "Generating")
              ELSE UNCHANGED <<summary, prompt_for_llm, pc>>
    /\ stages' = Put(stages, s,
                     (IF gen[s].status = "running" THEN stages[s]
                      ELSE Append(stages[s], "summarize")) \o <<"summary_request">>)
    /\ UNCHANGED <<cache, now, messages, cache_stats, processed_image_id, prompt,
                   query_embedding, cache_entries, cutoff_time, cached_entry,
                   vector_matches, relational_context, response, uploaded_file>>

\* app.py:175: one request of the answer's generation call.  When the call
\* returns, the locals that nothing reads again (the search results, the
\* prompt, the lookup's candidates) are dropped from the state.
GenerateAttempt(s, outcome, text) ==
    /\ pc[s] = "Generating"
    /\ LET g == call_gemini_rest_attempt(Running(gen[s], "text", TEXT_MAX_RETRIES),
                                         outcome, text)
       IN  /\ gen' = Put(gen, s, g)
           /\ IF g.status = "returned"
              THEN /\ response' = Put(response, s, g.result)
                   /\ pc' = Put(pc, s, "CacheWrite")
                   /\ vector_matches' = Put(vector_matches, s, <<>>)
                   /\ relational_context' = Put(relational_context, s, <<>>)
                   /\ prompt_for_llm' = Put(prompt_for_llm, s, None)
                   /\ summary' = Put(summary, s, "")
                   /\ summary_prompt' = Put(summary_prompt, s, None)
                   /\ cache_entries' = Put(cache_entries, s, None)
                   /\ cutoff_time' = Put(cutoff_time, s, 0)
              ELSE UNCHANGED <<response, pc, vector_matches, relational_context,
                               prompt_for_llm, summary, summary_prompt, cache_entries,
                               cutoff_time>>
    /\ stages' = Put(stages, s,
                     (IF gen[s].status = "running" /\ gen[s].kind = "text" THEN stages[s]
                      ELSE Append(stages[s], "generate")) \o <<"generate_request">>)
    /\ UNCHANGED <<cache, now, messages, cache_stats, processed_image_id, prompt,
                   query_embedding, cached_entry, uploaded_file>>

\* cache_response without its try: a failed insert ends the run
WriteCache_Raises(s, at, insert_ok) ==
    /\ pc[s] = "CacheWrite"
    /\ UNCHANGED summary_prompt
    /\ at \in 1..(Len(cache) + 1)
    /\ cache' = cache_response(prompt[s], query_embedding[s], response[s], cache, now,
                               at, insert_ok)
    /\ pc' = Put(pc, s, IF insert_ok THEN "Done" ELSE "Crashed")
    /\ stages' = Put(stages, s,
                     Append(stages[s], IF insert_ok THEN "cache_write" ELSE "cache_write_error"))
    /\ UNCHANGED <<now, messages, cache_stats, processed_image_id, prompt,
                   query_embedding, cache_entries, cutoff_time, cached_entry,
                   vector_matches, relational_context, summary, prompt_for_llm, gen,
                   response, uploaded_file>>

\* the handler keeping apologies of the generation client out of the cache
WriteCache_SkipsFallback(s, at, insert_ok) ==
    /\ pc[s] = "CacheWrite"
    /\ UNCHANGED summary_prompt
    /\ at \in 1..(Len(cache) + 1)
    /\ cache' = IF response[s] \in {TEXT_TIMEOUT_FALLBACK, TEXT_ERROR_FALLBACK}
                THEN cache
                ELSE cache_response(prompt[s], query_embedding[s], response[s], cache,
                                    now, at, insert_ok)
    /\ pc' = Put(pc, s, "Done")
    /\ stages' = Put(stages, s,
                     Append(stages[s], IF insert_ok THEN "cache_write" ELSE "cache_write_error"))
    /\ UNCHANGED <<now, messages, cache_stats, processed_image_id, prompt,
                   query_embedding, cache_entries, cutoff_time, cached_entry,
                   vector_matches, relational_context, summary, prompt_for_llm, gen,
                   response, uploaded_file>>

\* app.py:178-180: cache_response, whose failure is only printed; the
\* answer is then rendered
WriteCache(s, at, insert_ok) ==
    /\ pc[s] = "CacheWrite"
    /\ UNCHANGED summary_prompt
    /\ at \in 1..(Len(cache) + 1)
    /\ cache' = cache_response(prompt[s], query_embedding[s], response[s], cache, now,
                               at, insert_ok)
    /\ pc' = Put(pc, s, "Done")
    /\ stages' = Put(stages, s,
                     Append(stages[s], IF insert_ok THEN "cache_write" ELSE "cache_write_error"))
    /\ UNCHANGED <<now, messages, cache_stats, processed_image_id, prompt,
                   query_embedding, cache_entries, cutoff_time, cached_entry,
                   vector_matches, relational_context, summary, prompt_for_llm, gen,
                   response, uploaded_file>>

\* the answer written over the last turn instead of appended
Finish_Overwrites(s) ==
    /\ pc[s] = "Done"
    /\ messages' = Put(messages, s, [messages[s] EXCEPT ![Len(messages[s])] = Turn("assistant", response[s])])
    /\ pc' = Put(pc, s, "Idle")
    /\ ResetLocals(s)
    /\ stages' = Put(stages, s, <<>>)
    /\ UNCHANGED <<cache, now, cache_stats, processed_image_id, uploaded_file, prompt,
                   response>>

\* app.py:182: the assistant turn is appended and the run ends
Finish(s) ==
    /\ pc[s] = "Done"
    /\ messages' = Put(messages, s, Append(messages[s], Turn("assistant", response[s])))
    /\ pc' = Put(pc, s, "Idle")
    /\ ResetLocals(s)
    /\ stages' = Put(stages, s, <<>>)
    /\ UNCHANGED <<cache, now, cache_stats, processed_image_id, uploaded_file, prompt,
                   response>>

\* app.py:81-83: a new image is uploaded
Upload(s, file) ==
    /\ pc[s] \in {"Idle", "Error"}
    /\ processed_image_id[s] # Some(file)
    /\ uploaded_file' = Put(uploaded_file, s, Some(file))
    /\ pc' = Put(pc, s, "Analyzing")
    /\ ResetLocals(s)
    /\ prompt' = Put(prompt, s, "")
    /\ response' = Put(response, s, "")
    /\ stages' = Put(stages, s, <<>>)
    /\ UNCHANGED <<cache, now, messages, cache_stats, processed_image_id>>

\* app.py:84: one request of describe_image
AnalyzeAttempt(s, outcome, text) ==
    /\ pc[s] = "Analyzing"
    /\ UNCHANGED summary_prompt
    /\ LET g == describe_image_attempt(Running(gen[s], "vision", VISION_MAX_RETRIES),
                                       outcome, text)
       IN  /\ gen' = Put(gen, s, g)
           /\ IF g.status = "returned"
              THEN /\ response' = Put(response, s, g.result)
                   /\ pc' = Put(pc, s, "Analyzed")
              ELSE UNCHANGED <<response, pc>>
    /\ UNCHANGED <<cache, now, messages, cache_stats, processed_image_id, prompt,
                   query_embedding, cache_entries, cutoff_time, cached_entry,
                   vector_matches, relational_context, summary, prompt_for_llm,
                   uploaded_file, stages>>

\* app.py:86-101: the image is rendered, both turns are appended and the
\* script reruns
AppendImageTurns(s) ==
    /\ pc[s] = "Analyzed"
    /\ messages' =
          Put(messages, s,
              messages[s] \o <<Turn("user", ImageNote(uploaded_file[s][1])),
                               Turn("assistant", response[s])>>)
    /\ processed_image_id' = Put(processed_image_id, s, uploaded_file[s])
    /\ uploaded_file' = Put(uploaded_file, s, None)
    /\ pc' = Put(pc, s, "Idle")
    /\ ResetLocals(s)
    /\ UNCHANGED <<cache, now, cache_stats, prompt, response, stages>>

\* The clock advances by one TTL.  The program reads the clock at a cache
\* lookup (utils.py:106) and at a cache write (utils.py:147) only, so an
\* advance is taken right before one of those reads.
TickStep == CACHE_TTL_SECONDS

Tick ==
    /\ now < MaxTicks * TickStep
    /\ \E s \in DOMAIN pc : pc[s] \in {"CacheLookup", "CacheWrite"}
    /\ now' = now + TickStep
    /\ UNCHANGED summary_prompt
    /\ UNCHANGED <<cache, pc, messages, cache_stats, processed_image_id, prompt,
                   query_embedding, cache_entries, cutoff_time, cached_entry,
                   vector_matches, relational_context, summary, prompt_for_llm, gen,
                   response, uploaded_file, stages>>

-----------------------------------------------------------------------------
(* Spec: one session.  The collection outlives a session, so a session     *)
(* starts on a cache that is empty or holds an entry written earlier.      *)

StoredAnswer == "Try Pho Gia Truyen near Hoan Kiem Lake."

InitialCaches ==
    {<<>>, <<CacheEntry(Q_PHO, EmbeddingOf(Q_PHO), StoredAnswer, 0)>>}

Init ==
    /\ cache \in InitialCaches
    /\ now = 0
    /\ InitSessions({"s1"})

Next ==
    \/ \E s \in DOMAIN pc, q \in Queries : Submit(s, q)
    \/ \E s \in DOMAIN pc, ok \in BOOLEAN : Embed(s, ok)
    \/ \E s \in DOMAIN pc, ok \in BOOLEAN : CacheLookup(s, ok)
    \/ \E s \in DOMAIN pc, hits \in VectorHits, ok \in BOOLEAN : VectorSearch(s, hits, ok)
    \/ \E s \in DOMAIN pc, ok \in BOOLEAN : FetchContext(s, ok)
    \/ \E s \in DOMAIN pc : BuildPrompt(s)
    \/ \E s \in DOMAIN pc, o \in Outcomes, text \in Answers : GenerateAttempt(s, o, text)
    \/ \E s \in DOMAIN pc, at \in 1..(Len(cache) + 1), ok \in BOOLEAN : WriteCache(s, at, ok)
    \/ \E s \in DOMAIN pc : Finish(s)
    \/ \E s \in DOMAIN pc, f \in Images : Upload(s, f)
    \/ \E s \in DOMAIN pc, o \in Outcomes, text \in ImageTexts : AnalyzeAttempt(s, o, text)
    \/ \E s \in DOMAIN pc : AppendImageTurns(s)
    \/ Tick

Spec == Init /\ [][Next]_vars

-----------------------------------------------------------------------------
(* SpecScan: find_cached_similar_response applied to caches drawn from a   *)
(* bounded family: every short cache over a few entries, and long caches   *)
(* of about SCAN_LIMIT entries in which one entry differs from the rest.   *)

ScanEntrySet ==
    {CacheEntry(q, EmbeddingOf(q), StoredAnswer, t) :
        q \in {Q_PHO, Q_NOODLE, Q_BEACH}, t \in {0, CACHE_TTL_SECONDS}}

SeqsUpTo(S, n) == UNION {[1..k -> S] : k \in 0..n}

ShortCaches == SeqsUpTo(ScanEntrySet, MaxSmallCache)

LongCache(n, p, filler, special) == [i \in 1..n |-> IF i = p THEN special ELSE filler]

LongCaches ==
    LET pho == CacheEntry(Q_PHO, EmbeddingOf(Q_PHO), StoredAnswer, 0)
        beach == CacheEntry(Q_BEACH, EmbeddingOf(Q_BEACH), StoredAnswer, 0)
    IN  {LongCache(n, p, pair[1], pair[2]) :
            n \in SCAN_LIMIT..(SCAN_LIMIT + ExtraEntries),
            p \in 1..(SCAN_LIMIT + ExtraEntries),
            pair \in {<<pho, beach>>, <<beach, pho>>}}

\* the clock starts at the latest cached_at of the drawn entries: no entry
\* is dated after the lookup that reads it
InitScan ==
    /\ cache \in ShortCaches \cup LongCaches
    /\ now = CACHE_TTL_SECONDS
    /\ InitSessions({"s1"})

NextScan ==
    \/ \E s \in DOMAIN pc, q \in Queries : Submit(s, q)
    \/ \E s \in DOMAIN pc, ok \in BOOLEAN : Embed(s, ok)
    \/ \E s \in DOMAIN pc, ok \in BOOLEAN : CacheLookup(s, ok)
    \/ Tick

SpecScan == InitScan /\ [][NextScan]_vars

\* SpecDegen: the lookup over short caches whose documents, written by
\* other hands or under another embedding model, carry no embedding, an
\* empty one, an all-zero one or one of another dimension, beside a sound
\* entry.
DegenEmbeddings == {<<>>, <<0, 0>>, <<1>>, <<1, 0, 0>>}

DegenEntrySet ==
    {CacheEntry(Q_PHO, e, StoredAnswer, CACHE_TTL_SECONDS) : e \in DegenEmbeddings}
    \cup {[CacheEntry(Q_PHO, <<>>, StoredAnswer, CACHE_TTL_SECONDS)
             EXCEPT !.has_query_embedding = FALSE]}
    \cup {CacheEntry(Q_PHO, EmbeddingOf(Q_PHO), StoredAnswer, CACHE_TTL_SECONDS)}

InitDegen ==
    /\ cache \in SeqsUpTo(DegenEntrySet, MaxSmallCache)
    /\ now = CACHE_TTL_SECONDS
    /\ InitSessions({"s1"})

SpecDegen == InitDegen /\ [][NextScan]_vars

-----------------------------------------------------------------------------
(* SpecConc: two sessions on one collection, from an empty cache *)

ConcQueries == {Q_PHO}

InitConc ==
    /\ cache = <<>>
    /\ now = 0
    /\ InitSessions({"s1", "s2"})

NextConc ==
    \/ \E s \in DOMAIN pc, q \in ConcQueries : Submit(s, q)
    \/ \E s \in DOMAIN pc : Embed(s, TRUE)
    \/ \E s \in DOMAIN pc, ok \in BOOLEAN : CacheLookup(s, ok)
    \/ \E s \in DOMAIN pc : VectorSearch(s, <<KB_HANOI>>, TRUE)
    \/ \E s \in DOMAIN pc : FetchContext(s, TRUE)
    \/ \E s \in DOMAIN pc : BuildPrompt(s)
    \/ \E s \in DOMAIN pc, o \in Outcomes, text \in Answers : GenerateAttempt(s, o, text)
    \/ \E s \in DOMAIN pc, at \in 1..(Len(cache) + 1), ok \in BOOLEAN : WriteCache(s, at, ok)
    \/ \E s \in DOMAIN pc : Finish(s)

\* the steps of session s once its chat input has arrived
RunStep(s) ==
    \/ Embed(s, TRUE)
    \/ \E ok \in BOOLEAN : CacheLookup(s, ok)
    \/ VectorSearch(s, <<KB_HANOI>>, TRUE)
    \/ FetchContext(s, TRUE)
    \/ BuildPrompt(s)
    \/ \E o \in Outcomes, text \in Answers : GenerateAttempt(s, o, text)
    \/ \E at \in 1..(Len(cache) + 1), ok \in BOOLEAN : WriteCache(s, at, ok)
    \/ Finish(s)

\* Each session's script runs in its own thread, every call it makes returns
\* (requests time out), and the scheduler does not starve a thread.
SpecConc ==
    InitConc /\ [][NextConc]_vars /\ \A s \in {"s1", "s2"} : WF_vars(RunStep(s))

\* SpecLive: the chat handler of the single session of Spec, whose script
\* runs to its end for the same reasons.
NextLive ==
    \/ \E s \in DOMAIN pc, q \in Queries : Submit(s, q)
    \/ \E s \in DOMAIN pc, ok \in BOOLEAN : Embed(s, ok)
    \/ \E s \in DOMAIN pc, ok \in BOOLEAN : CacheLookup(s, ok)
    \/ \E s \in DOMAIN pc, hits \in VectorHits, ok \in BOOLEAN : VectorSearch(s, hits, ok)
    \/ \E s \in DOMAIN pc, ok \in BOOLEAN : FetchContext(s, ok)
    \/ \E s \in DOMAIN pc : BuildPrompt(s)
    \/ \E s \in DOMAIN pc, o \in Outcomes, text \in Answers : GenerateAttempt(s, o, text)
    \/ \E s \in DOMAIN pc, at \in 1..(Len(cache) + 1), ok \in BOOLEAN : WriteCache(s, at, ok)
    \/ \E s \in DOMAIN pc : Finish(s)

SpecLive == Init /\ [][NextLive]_vars /\ WF_vars(RunStep("s1"))

-----------------------------------------------------------------------------
(* SpecHist: one query arriving in a session whose conversation already    *)
(* holds up to MaxHistory turns of earlier runs of the handler.  A history *)
(* of odd length ends with a user turn whose run stopped at the embedding. *)

PastContents ==
    <<"Where to eat in Hue?", "Try bun bo Hue at Dong Ba market.",
      "Is Hoi An walkable?", "Yes, the old town is closed to cars.",
      "How long is the Hai Van pass?", "About 20 km by road.",
      "When is Tet?", "Late January or February.",
      "Is Sapa cold in winter?", "Yes, near freezing at night.",
      "Any night markets in Da Lat?", "The one by Xuan Huong lake.">>

PastTurns(n) ==
    [i \in 1..n |-> Turn(IF i % 2 = 1 THEN "user" ELSE "assistant", PastContents[i])]

InitHist ==
    /\ cache = <<>>
    /\ now = 0
    /\ pc = [s \in {"s1"} |-> "Idle"]
    /\ \E n \in 0..MaxHistory : messages = [s \in {"s1"} |-> PastTurns(n)]
    /\ cache_stats = [s \in {"s1"} |-> [hits |-> 0, misses |-> 0]]
    /\ processed_image_id = [s \in {"s1"} |-> None]
    /\ prompt = [s \in {"s1"} |-> ""]
    /\ query_embedding = [s \in {"s1"} |-> <<>>]
    /\ cache_entries = [s \in {"s1"} |-> None]
    /\ cutoff_time = [s \in {"s1"} |-> 0]
    /\ cached_entry = [s \in {"s1"} |-> None]
    /\ vector_matches = [s \in {"s1"} |-> <<>>]
    /\ relational_context = [s \in {"s1"} |-> <<>>]
    /\ summary = [s \in {"s1"} |-> ""]
    /\ summary_prompt = [s \in {"s1"} |-> None]
    /\ prompt_for_llm = [s \in {"s1"} |-> None]
    /\ gen = [s \in {"s1"} |-> GenIdle]
    /\ response = [s \in {"s1"} |-> ""]
    /\ uploaded_file = [s \in {"s1"} |-> None]
    /\ stages = [s \in {"s1"} |-> <<>>]

HistHits == {<<>>, <<KB_PHO>>}

NextHist ==
    \/ \E s \in DOMAIN pc, q \in ConcQueries : Submit(s, q)
    \/ \E s \in DOMAIN pc, ok \in BOOLEAN : Embed(s, ok)
    \/ \E s \in DOMAIN pc, ok \in BOOLEAN : CacheLookup(s, ok)
    \/ \E s \in DOMAIN pc, hits \in HistHits : VectorSearch(s, hits, TRUE)
    \/ \E s \in DOMAIN pc : FetchContext(s, TRUE)
    \/ \E s \in DOMAIN pc : BuildPrompt(s)
    \/ \E s \in DOMAIN pc, o \in Outcomes, text \in Summaries : SummarizeAttempt(s, o, text)
    \/ \E s \in DOMAIN pc, o \in Outcomes, text \in Answers : GenerateAttempt(s, o, text)
    \/ \E s \in DOMAIN pc, ok \in BOOLEAN : WriteCache(s, 1, ok)
    \/ \E s \in DOMAIN pc : Finish(s)

SpecHist == InitHist /\ [][NextHist]_vars

\* SpecTerm: one query, blank or not, arriving in such a session, on a
\* cache that is empty or holds an entry, with every backend free to
\* succeed, fail or time out at every call.  The script runs in its own
\* thread and every call it makes comes back, with a result, an exception
\* or a timeout: a step of the handler that can be taken is taken.
TermQueries == ConcQueries \cup {BLANK_QUERY}

InitTerm ==
    /\ cache \in InitialCaches
    /\ now = 0
    /\ pc = [s \in {"s1"} |-> "Idle"]
    /\ \E n \in 0..MaxHistory : messages = [s \in {"s1"} |-> PastTurns(n)]
    /\ cache_stats = [s \in {"s1"} |-> [hits |-> 0, misses |-> 0]]
    /\ processed_image_id = [s \in {"s1"} |-> None]
    /\ prompt = [s \in {"s1"} |-> ""]
    /\ query_embedding = [s \in {"s1"} |-> <<>>]
    /\ cache_entries = [s \in {"s1"} |-> None]
    /\ cutoff_time = [s \in {"s1"} |-> 0]
    /\ cached_entry = [s \in {"s1"} |-> None]
    /\ vector_matches = [s \in {"s1"} |-> <<>>]
    /\ relational_context = [s \in {"s1"} |-> <<>>]
    /\ summary = [s \in {"s1"} |-> ""]
    /\ summary_prompt = [s \in {"s1"} |-> None]
    /\ prompt_for_llm = [s \in {"s1"} |-> None]
    /\ gen = [s \in {"s1"} |-> GenIdle]
    /\ response = [s \in {"s1"} |-> ""]
    /\ uploaded_file = [s \in {"s1"} |-> None]
    /\ stages = [s \in {"s1"} |-> <<>>]

\* a step of the handler of session s on its query
TermStep(s) ==
    \/ \E ok \in BOOLEAN : Embed(s, ok)
    \/ \E ok \in BOOLEAN : CacheLookup(s, ok)
    \/ \E hits \in HistHits, ok \in BOOLEAN : VectorSearch(s, hits, ok)
    \/ \E ok \in BOOLEAN : FetchContext(s, ok)
    \/ BuildPrompt(s)
    \/ \E o \in Outcomes, text \in Summaries : SummarizeAttempt(s, o, text)
    \/ \E o \in Outcomes, text \in Answers : GenerateAttempt(s, o, text)
    \/ \E at \in 1..(Len(cache) + 1), ok \in BOOLEAN : WriteCache(s, at, ok)

NextTerm ==
    \/ \E s \in DOMAIN pc, q \in TermQueries : Submit(s, q)
    \/ \E s \in DOMAIN pc : TermStep(s)
    \/ \E s \in DOMAIN pc : Finish(s)

SpecTerm == InitTerm /\ [][NextTerm]_vars /\ WF_vars(TermStep("s1"))

-----------------------------------------------------------------------------
(* Properties of the cache lookup (SpecScan) *)

\* the lookup is the last operation session s ran
JustLookedUp(s) == stages[s] # <<>> /\ Last(stages[s]) = "cache_lookup"

\* the candidates the lookup scanned
Scanned(s) == IF cache_entries[s] = None THEN <<>> ELSE cache_entries[s][1]

SimTo(s, entry) == cosine_similarity(query_embedding[s], entry.query_embedding)

Reaches(s, entry) == entry.has_query_embedding /\ SimAtLeastThreshold(SimTo(s, entry))

\* C1: the lookup returns an entry if and only if some scanned candidate has
\* similarity >= 0.92 to the query, and the entry returned is then a scanned
\* candidate that no other scanned candidate beats; otherwise it returns none.
C1_BestIffThreshold ==
    \A s \in DOMAIN pc :
        JustLookedUp(s) =>
            LET cands == Scanned(s)
                idx == {i \in 1..Len(cands) : cands[i].has_query_embedding}
            IN  /\ (cached_entry[s] # None) <=> (\E i \in idx : Reaches(s, cands[i]))
                /\ cached_entry[s] # None =>
                      \E i \in idx :
                          /\ cands[i] = cached_entry[s][1]
                          /\ \A j \in idx : ~SimGreater(SimTo(s, cands[j]), SimTo(s, cands[i]))

\* a hit on the second of two candidates that both reach the threshold
C1_Witness ==
    \E s \in DOMAIN pc :
        /\ JustLookedUp(s)
        /\ cached_entry[s] # None
        /\ Len(Scanned(s)) >= 2
        /\ Reaches(s, Scanned(s)[1])
        /\ SimGreater(SimTo(s, cached_entry[s][1]), SimTo(s, Scanned(s)[1]))

\* the stored entries inside the TTL window at the time of the lookup
WindowIdx == {i \in 1..Len(cache) : now - cache[i].cached_at <= CACHE_TTL_SECONDS}

\* those of them that are among the first SCAN_LIMIT in the store's order
ScannedIdx == {i \in WindowIdx : Cardinality({j \in WindowIdx : j <= i}) <= SCAN_LIMIT}

\* the lookup's result is the best entry reaching the threshold among cache[i], i in I
BestAmong(s, I) ==
    LET good == {i \in I : Reaches(s, cache[i])}
    IN  /\ (cached_entry[s] # None) <=> (good # {})
        /\ cached_entry[s] # None =>
              /\ \E i \in good : cache[i] = cached_entry[s][1]
              /\ \A j \in good : ~SimGreater(SimTo(s, cache[j]), SimTo(s, cached_entry[s][1]))

\* C2 as stated: whatever the number of entries inside the TTL window, a
\* lookup whose find succeeded returns the best entry reaching the threshold
\* among all of them.
C2_GloballyBest_AnySize ==
    \A s \in DOMAIN pc :
        JustLookedUp(s) /\ cache_entries[s] # None => BestAmong(s, WindowIdx)

\* C2 amended: a lookup whose find succeeded returns the best entry reaching
\* the threshold among the first 50 in-window entries in the store's order,
\* which are all of them when at most 50 entries are inside the window.
C2_BestOfScanLimit ==
    \A s \in DOMAIN pc :
        JustLookedUp(s) /\ cache_entries[s] # None =>
            /\ BestAmong(s, ScannedIdx)
            /\ Cardinality(WindowIdx) <= SCAN_LIMIT => BestAmong(s, WindowIdx)

\* more than 50 entries in the window, and one beyond the scan limit that
\* reaches the threshold and beats what the lookup returned
C2_Witness ==
    \E s \in DOMAIN pc :
        /\ JustLookedUp(s)
        /\ Len(Scanned(s)) = SCAN_LIMIT
        /\ \E i \in WindowIdx \ ScannedIdx :
              /\ Reaches(s, cache[i])
              /\ cached_entry[s] # None
              /\ SimGreater(SimTo(s, cache[i]), SimTo(s, cached_entry[s][1]))

\* C3: an entry cached more than CACHE_TTL_SECONDS before the lookup is
\* never returned, and the lookup returns none when every stored entry is
\* that old.
C3_NoExpiredEntry ==
    \A s \in DOMAIN pc :
        JustLookedUp(s) =>
            /\ cached_entry[s] # None =>
                  now - cached_entry[s][1].cached_at <= CACHE_TTL_SECONDS
            /\ WindowIdx = {} => cached_entry[s] = None

\* the find succeeded, an expired entry matches the query exactly, and the
\* lookup returned none
C3_Witness ==
    \E s \in DOMAIN pc :
        /\ JustLookedUp(s)
        /\ cache_entries[s] # None
        /\ cached_entry[s] = None
        /\ \E i \in 1..Len(cache) :
              /\ i \notin WindowIdx
              /\ cache[i].query_embedding = query_embedding[s]

-----------------------------------------------------------------------------
(* Properties of the generation client and of the chat handler (Spec) *)

AllTimeouts(g) ==
    /\ Requests(g) # <<>>
    /\ \A i \in 1..Len(Requests(g)) : Requests(g)[i] = "timeout"

TimeoutText(kind) == IF kind = "vision" THEN VISION_FALLBACK ELSE TEXT_TIMEOUT_FALLBACK

\* C4: a call of the generation client never raises and never makes more
\* than max_retries requests; a call that returned after requests that all
\* timed out made exactly max_retries requests and returned the fallback
\* string of its kind.
C4_TimeoutsExhaustRetries ==
    \A s \in DOMAIN pc :
        LET g == gen[s]
        IN  /\ g.status # "raised"
            /\ Len(Requests(g)) <= g.max_retries
            /\ g.status = "running" => Len(Requests(g)) < g.max_retries
            /\ g.status = "returned" /\ AllTimeouts(g) =>
                  /\ Len(Requests(g)) = g.max_retries
                  /\ g.result = TimeoutText(g.kind)

\* call_gemini_rest returned after two requests that both timed out
C4_Witness ==
    \E s \in DOMAIN pc :
        /\ pc[s] = "CacheWrite"
        /\ gen[s].kind = "text"
        /\ gen[s].status = "returned"
        /\ gen[s].events = <<"timeout", "sleep_2s", "timeout">>
        /\ response[s] = TEXT_TIMEOUT_FALLBACK

\* describe_image returned after three requests that all timed out
VisionTimeoutsReached ==
    \E s \in DOMAIN pc :
        /\ pc[s] = "Analyzed"
        /\ gen[s].kind = "vision"
        /\ AllTimeouts(gen[s])
        /\ Len(Requests(gen[s])) = VISION_MAX_RETRIES
        /\ response[s] = VISION_FALLBACK

\* C5: once get_embedding has returned an empty vector, the run is stopped
\* with the error outcome and has run nothing but the embedding: no lookup,
\* no search, no fetch, no prompt, no generation request, no cache write.
C5_EmbeddingFailureHalts ==
    \A s \in DOMAIN pc :
        /\ stages[s] # <<>> /\ query_embedding[s] = <<>> =>
              /\ pc[s] = "Error"
              /\ stages[s] = <<"embed">>
              /\ cache_entries[s] = None
              /\ cached_entry[s] = None
              /\ vector_matches[s] = <<>>
              /\ relational_context[s] = <<>>
              /\ prompt_for_llm[s] = None
              /\ gen[s] = GenIdle
              /\ response[s] = ""
              /\ Last(messages[s]) = Turn("user", prompt[s])
        /\ pc[s] = "Error" => query_embedding[s] = <<>> /\ stages[s] = <<"embed">>

\* the embedding backend failed on a query that is not blank
C5_Witness ==
    \E s \in DOMAIN pc : pc[s] = "Error" /\ ~IsBlank(prompt[s])

\* C6: a run whose lookup returned an entry is at Done with that entry's
\* stored response as its answer, and has run the embedding and the lookup
\* only: no search, no fetch, no prompt, no generation request, no write.
C6_CacheHitVerbatim ==
    \A s \in DOMAIN pc :
        cached_entry[s] # None =>
            /\ pc[s] = "Done"
            /\ response[s] = cached_entry[s][1].response
            /\ \E i \in 1..Len(cache) : cache[i] = cached_entry[s][1]
            /\ stages[s] = <<"embed", "cache_lookup">>
            /\ vector_matches[s] = <<>>
            /\ relational_context[s] = <<>>
            /\ prompt_for_llm[s] = None
            /\ gen[s] = GenIdle

\* a hit on an entry stored for another, similar query
C6_Witness ==
    \E s \in DOMAIN pc :
        /\ pc[s] = "Done"
        /\ cached_entry[s] # None
        /\ cached_entry[s][1].query # prompt[s]
        /\ response[s] = StoredAnswer


\* the write of session s has just succeeded
JustWrote(s) == stages[s] # <<>> /\ Last(stages[s]) = "cache_write"

\* C7: a step in which the cache write of a missed query succeeds inserts
\* exactly one entry, made of the query text, the query's embedding and the
\* answer the run goes on to return, and leaves every other entry as it was.
C7_MissWritesOneEntry ==
    [][\A s \in DOMAIN pc :
          pc[s] = "CacheWrite" /\ pc'[s] = "Done" /\ JustWrote(s)' =>
              /\ Len(cache') = Len(cache) + 1
              /\ \E at \in 1..Len(cache') :
                    /\ cache' = InsertAt(cache, at, cache'[at])
                    /\ cache'[at].is_cache
                    /\ cache'[at].query = prompt[s]
                    /\ cache'[at].has_query_embedding
                    /\ cache'[at].query_embedding = EmbeddingOf(prompt[s])
                    /\ cache'[at].response = response'[s]
                    /\ cache'[at].cached_at = now]_vars

\* a missed query has left a second entry beside the one stored before
C7_Witness ==
    \E s \in DOMAIN pc :
        /\ pc[s] = "Done"
        /\ JustWrote(s)
        /\ cached_entry[s] = None
        /\ Len(cache) = 2
        /\ \E i \in 1..2 : cache[i] = CacheEntry(prompt[s], query_embedding[s], response[s], now)

\* C8: a run never ends on a failed cache write: after the write step,
\* failed or not, the run is at Done with the answer the generation call
\* returned, and the turn appended when the run ends is that answer.
C8_WriteFailureSwallowed ==
    \A s \in DOMAIN pc :
        /\ pc[s] # "Crashed"
        /\ pc[s] = "Done" /\ cached_entry[s] = None =>
              /\ Last(stages[s]) \in {"cache_write", "cache_write_error"}
              /\ gen[s].status = "returned"
              /\ response[s] = gen[s].result
        /\ pc[s] = "Idle" /\ messages[s] # <<>> =>
              Last(messages[s]) = Turn("assistant", response[s])

\* the insert failed and the run is at Done with a generated answer
C8_Witness ==
    \E s \in DOMAIN pc :
        /\ pc[s] = "Done"
        /\ Last(stages[s]) = "cache_write_error"
        /\ response[s] \in Answers

IsPrefix(a, b) == Len(a) <= Len(b) /\ SubSeq(b, 1, Len(a)) = a

\* C9: the history only grows at its end; when a run is about to look the
\* cache up its last turn is the user's query; between that and Done the
\* history does not change; the step that ends a run at Done appends the
\* answer as an assistant turn.
C9_HistoryAppendOnly ==
    [][\A s \in DOMAIN pc :
          /\ IsPrefix(messages[s], messages'[s])
          /\ pc'[s] = "CacheLookup" => Last(messages'[s]) = Turn("user", prompt'[s])
          /\ pc[s] \notin {"Idle", "Error", "Done", "Analyzed"} => messages'[s] = messages[s]
          /\ pc[s] = "Done" /\ pc'[s] # "Done" =>
                messages'[s] = Append(messages[s], Turn("assistant", response[s]))]_vars

\* a query answered after an image was analysed: four turns, in order
C9_Witness ==
    \E s \in DOMAIN pc :
        /\ pc[s] = "Idle"
        /\ Len(messages[s]) = 4
        /\ messages[s][1].role = "user"
        /\ messages[s][2].role = "assistant"
        /\ messages[s][3] = Turn("user", prompt[s])
        /\ messages[s][4] = Turn("assistant", response[s])

-----------------------------------------------------------------------------
(* Two concurrent requests (SpecConc) *)

\* C10: no step removes or alters a stored entry (the cache changes by one
\* insertion at a time), and each of two concurrent requests reaches Done.
C10_ConcurrentRequests ==
    /\ [][\/ cache' = cache
          \/ /\ Len(cache') = Len(cache) + 1
             /\ \E at \in 1..Len(cache') : cache' = InsertAt(cache, at, cache'[at])]_vars
    /\ \A s \in {"s1", "s2"} : (pc[s] = "Embedding") ~> (pc[s] = "Done")

\* both requests carry the same query, both lookups missed, both wrote:
\* two entries for that query
C10_Witness ==
    /\ \A s \in DOMAIN pc :
          /\ pc[s] = "Done"
          /\ cached_entry[s] = None
          /\ JustWrote(s)
          /\ gen[s].status = "returned"
    /\ prompt["s1"] = prompt["s2"]
    /\ Len(cache) = 2
    /\ cache[1].query = prompt["s1"]
    /\ cache[2].query = prompt["s1"]

-----------------------------------------------------------------------------
(* Failures of the retrieval steps (SpecLive) *)

\* session s has run the operation logged under this name for its query
Ran(s, name) == \E i \in 1..Len(stages[s]) : stages[s][i] = name

\* C11: no retrieval failure ends the run.  A lookup whose find raised is a
\* miss; a vector search that raised leaves no matches and a relational
\* fetch that raised leaves no related items, and the run is at the next
\* stage; a run that missed the cache goes on to Done with an answer.
C11_RetrievalFailuresDegrade ==
    /\ [](\A s \in DOMAIN pc :
            /\ pc[s] # "Crashed"
            /\ JustLookedUp(s) /\ cache_entries[s] = None =>
                  /\ cached_entry[s] = None
                  /\ pc[s] = "Retrieving"
                  /\ cache_stats[s].misses > 0
            /\ stages[s] # <<>> /\ Last(stages[s]) = "vector_search_error" =>
                  vector_matches[s] = <<>> /\ pc[s] = "ContextFetch"
            /\ stages[s] # <<>> /\ Last(stages[s]) = "relational_fetch_error" =>
                  relational_context[s] = <<>> /\ pc[s] = "PromptAssembly")
    /\ \A s \in {"s1"} :
          (pc[s] = "Retrieving") ~> (pc[s] = "Done" /\ response[s] # "")

\* a query answered although its vector search failed
C11_Witness ==
    \E s \in DOMAIN pc :
        /\ pc[s] = "Done"
        /\ Ran(s, "vector_search_error")
        /\ response[s] \in Answers

\* a query answered although its relational fetch failed
FetchFailureReached ==
    \E s \in DOMAIN pc : pc[s] = "Done" /\ Ran(s, "relational_fetch_error")

-----------------------------------------------------------------------------
(* Fallback answers and the cache (SpecConc) *)

IsFallback(text) == text \in {TEXT_TIMEOUT_FALLBACK, TEXT_ERROR_FALLBACK}

\* the call returned after max_retries requests none of which succeeded
Exhausted(g) ==
    /\ g.status = "returned"
    /\ Len(Requests(g)) = g.max_retries
    /\ \A i \in 1..Len(Requests(g)) : Requests(g)[i] # "ok"

\* C12: when the generation call of a missed query has exhausted its
\* retries, the answer is a fallback string and a successful cache write
\* stores it under the query like any answer; and a lookup all of whose
\* candidates at or above the threshold hold a fallback string is a hit
\* answered with that string, with no generation call.
C12_FallbackIsCached ==
    /\ [][\A s \in DOMAIN pc :
            pc[s] = "CacheWrite" /\ Exhausted(gen[s]) /\ JustWrote(s)' =>
                /\ IsFallback(response[s])
                /\ Len(cache') = Len(cache) + 1
                /\ \E at \in 1..Len(cache') :
                      /\ cache' = InsertAt(cache, at, cache'[at])
                      /\ cache'[at].query = prompt[s]
                      /\ cache'[at].response = response[s]
                      /\ cache'[at].cached_at = now]_vars
    /\ [](\A s \in DOMAIN pc :
            /\ JustLookedUp(s)
            /\ cache_entries[s] # None
            /\ \E i \in 1..Len(Scanned(s)) : Reaches(s, Scanned(s)[i])
            /\ \A i \in 1..Len(Scanned(s)) :
                  Reaches(s, Scanned(s)[i]) => IsFallback(Scanned(s)[i].response)
            => /\ pc[s] = "Done"
               /\ cached_entry[s] # None
               /\ IsFallback(response[s])
               /\ gen[s] = GenIdle
               /\ ~Ran(s, "generate"))

\* one request timed out twice and cached the apology; the other request,
\* with the same query, is answered with it from the cache
C12_Witness ==
    \E s, r \in DOMAIN pc :
        /\ s # r
        /\ pc[s] = "Done"
        /\ cached_entry[s] # None
        /\ response[s] = TEXT_TIMEOUT_FALLBACK
        /\ gen[s] = GenIdle
        /\ gen[r].events = <<"timeout", "sleep_2s", "timeout">>
        /\ cached_entry[s][1].query = prompt[r]

-----------------------------------------------------------------------------
(* Failures of the generation backend that are not timeouts (Spec) *)

\* the call returned and none of its requests succeeded
Failed(g) ==
    /\ g.status = "returned"
    /\ \A i \in 1..Len(Requests(g)) : Requests(g)[i] # "ok"

\* the fallback string of a call whose requests all failed
FallbackOf(g) ==
    IF g.kind = "vision" THEN VISION_FALLBACK
    ELSE IF Last(Requests(g)) = "timeout" THEN TEXT_TIMEOUT_FALLBACK
    ELSE TEXT_ERROR_FALLBACK

\* C13 as claimed: a call none of whose requests succeeded, timeouts or
\* not, made max_retries requests and returned the string it returns when
\* every request times out.
C13_SameFallbackAsTimeouts ==
    \A s \in DOMAIN pc :
        /\ gen[s].status # "raised"
        /\ Failed(gen[s]) =>
              /\ Len(Requests(gen[s])) = gen[s].max_retries
              /\ gen[s].result = TimeoutText(gen[s].kind)

\* C13: a call none of whose requests succeeded, timeouts or not, made
\* max_retries requests and returned a fixed string: the one string of
\* describe_image, and for call_gemini_rest the timeout string when the
\* last request timed out and the error string otherwise.  No call raises.
C13_FallbackByLastFailure ==
    \A s \in DOMAIN pc :
        /\ gen[s].status # "raised"
        /\ Failed(gen[s]) =>
              /\ Len(Requests(gen[s])) = gen[s].max_retries
              /\ gen[s].result = FallbackOf(gen[s])

\* call_gemini_rest returned after a timeout and then an HTTP error
C13_Witness ==
    \E s \in DOMAIN pc :
        /\ gen[s].kind = "text"
        /\ gen[s].status = "returned"
        /\ gen[s].events = <<"timeout", "sleep_2s", "error">>
        /\ gen[s].result = TEXT_ERROR_FALLBACK

-----------------------------------------------------------------------------
(* The history section of the prompt (SpecHist) *)

\* how many times session s has run the operation logged under this name
Count(s, name) == Len(SelectSeq(stages[s], LAMBDA x : x = name))

Label(role) == IF role = "user" THEN "User" ELSE "Assistant"

\* the history section of the prompt session s has assembled
Section(s) == prompt_for_llm[s][1].history

\* the turns whose text the summary was asked of
Summarized(s) == {summary_prompt[s][1][i][2] : i \in 1..Len(summary_prompt[s][1])}

\* C14: at most one summarization call is made for a query, and only for a
\* history of more than 6 turns.  An assembled prompt over such a history
\* came after exactly one summarization call, asked of the first 6 turns,
\* and holds what that call returned and the last 6 turns in order; an
\* assembled prompt over a history of at most 6 turns came without a
\* summarization call and holds every turn in order, and no summary.
C14_HistoryPolicy ==
    \A s \in DOMAIN pc :
        LET h == History(s)
            n == Len(h)
        IN  /\ Count(s, "summarize") <= 1
            /\ Count(s, "summarize") = 1 => n > HISTORY_THRESHOLD
            /\ prompt_for_llm[s] # None /\ n > HISTORY_THRESHOLD =>
                  /\ Count(s, "summarize") = 1
                  /\ summary_prompt[s] # None
                  /\ Summarized(s) = {h[i].content : i \in 1..SUMMARY_HEAD}
                  /\ Section(s).summary = Some(summary[s])
                  /\ Len(Section(s).turns) = HISTORY_TAIL
                  /\ \A i \in 1..HISTORY_TAIL :
                        Section(s).turns[i] =
                            <<Label(h[n - HISTORY_TAIL + i].role),
                              h[n - HISTORY_TAIL + i].content>>
            /\ prompt_for_llm[s] # None /\ n <= HISTORY_THRESHOLD =>
                  /\ Count(s, "summarize") = 0
                  /\ summary_prompt[s] = None
                  /\ Section(s).summary = None
                  /\ n > 0 =>
                        /\ Len(Section(s).turns) = n
                        /\ \A i \in 1..n :
                              Section(s).turns[i] = <<Label(h[i].role), h[i].content>>

\* a prompt over a history of 8 turns, with the summary the backend gave
C14_Witness ==
    \E s \in DOMAIN pc :
        /\ pc[s] = "Generating"
        /\ Len(History(s)) = 8
        /\ prompt_for_llm[s] # None
        /\ Section(s).summary = Some("The traveler wants food tips.")
        /\ Section(s).turns[1] = <<"User", PastContents[3]>>

\* a prompt over a history of exactly 6 turns, all of them in it
ShortHistoryReached ==
    \E s \in DOMAIN pc :
        /\ pc[s] = "Generating"
        /\ Len(History(s)) = HISTORY_THRESHOLD
        /\ prompt_for_llm[s] # None
        /\ Len(Section(s).turns) = HISTORY_THRESHOLD

\* C15: when the summarization call has failed (none of its requests
\* succeeded), the prompt is assembled all the same, and its history
\* section holds the last 6 turns and no summary: no fallback string of
\* the generation client stands where the summary goes.
C15_FailedSummaryLeavesRawTail ==
    \A s \in DOMAIN pc :
        pc[s] = "Generating" /\ gen[s].kind = "summary" /\ Failed(gen[s]) =>
            /\ prompt_for_llm[s] # None
            /\ Section(s).summary \in {None, Some("")}
            /\ Section(s).turns = RenderTurns(LastN(History(s), HISTORY_TAIL))

-----------------------------------------------------------------------------
(* Ties and degenerate embeddings in the cache lookup (SpecScan) *)

Reverse(seq) == [i \in 1..Len(seq) |-> seq[Len(seq) + 1 - i]]

SameSim(a, b) == ~SimGreater(a, b) /\ ~SimGreater(b, a)

\* C16: the entry a lookup returns is, of the scanned candidates that share
\* its similarity, the most recent one, and it is the entry the lookup
\* returns when the store hands the same candidates over in the opposite
\* order.
C16_TieOrderIsMostRecentFirst ==
    \A s \in DOMAIN pc :
        JustLookedUp(s) /\ cache_entries[s] # None /\ cached_entry[s] # None =>
            /\ \A i \in 1..Len(Scanned(s)) :
                  /\ Scanned(s)[i].has_query_embedding
                  /\ SameSim(SimTo(s, Scanned(s)[i]), SimTo(s, cached_entry[s][1]))
                  => cached_entry[s][1].cached_at >= Scanned(s)[i].cached_at
            /\ cached_entry[s] =
                  find_cached_similar_response(query_embedding[s], Reverse(Scanned(s)),
                                               now, TRUE)

IsZeroVector(v) == \A i \in 1..Len(v) : v[i] = 0

\* the candidate's embedding is missing, empty, all-zero or not of the
\* dimension of the query embedding q_emb
Degenerate(entry, q_emb) ==
    \/ ~entry.has_query_embedding
    \/ Len(entry.query_embedding) = 0
    \/ IsZeroVector(entry.query_embedding)
    \/ Len(entry.query_embedding) # Len(q_emb)

\* C17: for every scanned candidate whose embedding is empty, all-zero or
\* of another dimension than the query's, cosine_similarity gives 0 in
\* either argument order; and no candidate whose embedding is missing or
\* degenerate is the entry the lookup returns.  A lookup whose find did
\* not fail never ends in its exception handler over such candidates: when
\* a sound candidate reaches the threshold the lookup returns an entry.
C17_DegenerateEmbeddingsScoreZero ==
    \A s \in DOMAIN pc :
        JustLookedUp(s) /\ cache_entries[s] # None =>
            /\ \A i \in 1..Len(Scanned(s)) :
                  Degenerate(Scanned(s)[i], query_embedding[s]) =>
                      /\ Scanned(s)[i].has_query_embedding =>
                            /\ SimTo(s, Scanned(s)[i]) = SimZero
                            /\ cosine_similarity(Scanned(s)[i].query_embedding,
                                                 query_embedding[s]) = SimZero
                      /\ cached_entry[s] # Some(Scanned(s)[i])
            /\ (\E i \in 1..Len(Scanned(s)) :
                    /\ ~Degenerate(Scanned(s)[i], query_embedding[s])
                    /\ Reaches(s, Scanned(s)[i]))
                  => cached_entry[s] # None

\* a lookup over an entry of another dimension and a sound entry, in that
\* order, returned the sound one
C17_Witness ==
    \E s \in DOMAIN pc :
        /\ JustLookedUp(s)
        /\ Len(Scanned(s)) = 2
        /\ Scanned(s)[1].query_embedding = <<1, 0, 0>>
        /\ query_embedding[s] = <<1, 0>>
        /\ cached_entry[s] = Some(Scanned(s)[2])

\* a lookup over candidates all of which are degenerate returned none
AllDegenerateReached ==
    \E s \in DOMAIN pc :
        /\ JustLookedUp(s)
        /\ Len(Scanned(s)) = 2
        /\ ~Scanned(s)[1].has_query_embedding
        /\ IsZeroVector(Scanned(s)[2].query_embedding)
        /\ Len(Scanned(s)[2].query_embedding) = 2
        /\ cached_entry[s] = None

-----------------------------------------------------------------------------
(* The order of the stages of a query (Spec) *)

\* the name a stage is logged under when it has failed, and otherwise
StageOf(name) ==
    CASE name = "vector_search_error" -> "vector_search"
      [] name = "relational_fetch_error" -> "relational_fetch"
      [] name = "cache_write_error" -> "cache_write"
      [] OTHER -> name

\* the stages session s has run for its query, in order, without the
\* requests of the generation client and the summarization inside the
\* prompt assembly
StagesRun(s) ==
    LET kept == SelectSeq(stages[s],
                          LAMBDA x : x \notin {"summarize", "summary_request",
                                               "generate_request"})
    IN  [i \in 1..Len(kept) |-> StageOf(kept[i])]

MissOrder ==
    <<"embed", "cache_lookup", "vector_search", "relational_fetch", "build_prompt",
      "generate", "cache_write">>

\* how many stages are behind a run at this point of the handler
StagesBehind(at) ==
    CASE at = "Embedding" -> 0
      [] at = "CacheLookup" -> 1
      [] at = "Retrieving" -> 2
      [] at = "ContextFetch" -> 3
      [] at = "PromptAssembly" -> 4
      [] at = "Generating" -> 5
      [] at = "CacheWrite" -> 6
      [] OTHER -> 7

\* C18: the stages a query has run are always the first stages of the
\* order embedding, cache lookup, vector search, relational fetch, prompt
\* assembly, generation, cache write, each once; a run that missed the
\* cache is at Done only after all seven, and a run at a stage has run
\* exactly the stages before it.
C18_StageOrder ==
    \A s \in DOMAIN pc :
        /\ IsPrefix(StagesRun(s), MissOrder)
        /\ pc[s] = "Done" /\ cached_entry[s] = None => StagesRun(s) = MissOrder
        /\ pc[s] \in {"Embedding", "CacheLookup", "Retrieving", "ContextFetch",
                      "PromptAssembly", "CacheWrite"} =>
              Len(StagesRun(s)) = StagesBehind(pc[s])
        /\ pc[s] = "Generating" => Len(StagesRun(s)) \in {5, 6}

\* a missed query at Done after its seven stages, the write a success
C18_Witness ==
    \E s \in DOMAIN pc :
        /\ pc[s] = "Done"
        /\ cached_entry[s] = None
        /\ stages[s] = <<"embed", "cache_lookup", "vector_search", "relational_fetch",
                         "build_prompt", "generate", "generate_request", "cache_write">>

-----------------------------------------------------------------------------
(* The generation calls of one query (SpecHist) *)

\* C19: a query makes at most one summarization call and at most one
\* answer call, so at most two calls of the generation client; each makes
\* at most max_retries requests, so the query makes at most twice that
\* many, whatever the length of the history; and the summary is asked of
\* turns of the history only, never of a summary.
C19_SingleLevelSummarization ==
    \A s \in DOMAIN pc :
        /\ Count(s, "summarize") <= 1
        /\ Count(s, "generate") <= 1
        /\ Count(s, "summary_request") <= TEXT_MAX_RETRIES
        /\ Count(s, "generate_request") <= TEXT_MAX_RETRIES
        /\ Count(s, "summary_request") + Count(s, "generate_request")
              <= 2 * TEXT_MAX_RETRIES
        /\ Count(s, "summary_request") > 0 => Count(s, "summarize") = 1
        /\ summary_prompt[s] # None =>
              Summarized(s) \subseteq
                  {History(s)[i].content : i \in 1..Len(History(s))}

\* over a history of 8 turns, both calls used up their retries: four
\* requests in all
C19_Witness ==
    \E s \in DOMAIN pc :
        /\ pc[s] = "CacheWrite"
        /\ Len(History(s)) = 8
        /\ Count(s, "summary_request") = TEXT_MAX_RETRIES
        /\ Count(s, "generate_request") = TEXT_MAX_RETRIES

-----------------------------------------------------------------------------
(* The stored entries (Spec) *)

Expired(entry) == entry.cached_at < now - CACHE_TTL_SECONDS

\* C20: a step either leaves the collection as it is or inserts one entry
\* and leaves every other entry as it was; only the cache write of a run
\* changes it, and a step in which a run looks the cache up leaves it as
\* it is, expired entries included.
C20_CacheOnlyGrows ==
    [][/\ \/ cache' = cache
          \/ /\ Len(cache') = Len(cache) + 1
             /\ \E at \in 1..Len(cache') : cache' = InsertAt(cache, at, cache'[at])
             /\ \E s \in DOMAIN pc : pc[s] = "CacheWrite" /\ pc'[s] = "Done"
       /\ \A s \in DOMAIN pc :
             pc[s] = "CacheLookup" /\ pc'[s] # "CacheLookup" => cache' = cache]_vars

\* an entry that expired before the lookup is still stored after the
\* query missed and wrote its own entry beside it
C20_Witness ==
    \E s \in DOMAIN pc :
        /\ pc[s] = "Done"
        /\ JustWrote(s)
        /\ Len(cache) = 2
        /\ \E i \in 1..2 : Expired(cache[i]) /\ cache[i].query = prompt[s]

-----------------------------------------------------------------------------
(* The attempts and the sleeps of a generation call (Spec) *)

IsSleep(ev) == ev \in {"sleep_1s", "sleep_2s"}

BackendTexts == Answers \cup Summaries \cup ImageTexts

\* C21: a call of the generation client makes at most max_retries
\* requests; a request that succeeded is the last thing the call did, and
\* the call has returned the text of the backend; every sleep comes right
\* after a failed request, and is followed by another request or, while
\* the call is still running, by one that is still to be made within the
\* budget: a call that has returned did not end on a sleep.
C21_AttemptsAndSleeps ==
    \A s \in DOMAIN pc :
        LET g == gen[s]
            n == Len(g.events)
        IN  /\ Len(Requests(g)) <= g.max_retries
            /\ \A i \in 1..n :
                  /\ g.events[i] = "ok" =>
                        /\ i = n
                        /\ g.status = "returned"
                        /\ g.result \in BackendTexts
                  /\ IsSleep(g.events[i]) =>
                        /\ i > 1
                        /\ g.events[i - 1] \in {"timeout", "error"}
                        /\ i < n => g.events[i + 1] \in Outcomes
                        /\ i = n =>
                              /\ g.status = "running"
                              /\ Len(Requests(g)) < g.max_retries
            /\ g.status = "returned" /\ n > 0 => ~IsSleep(g.events[n])

\* call_gemini_rest failed once, slept, succeeded at the second request
\* and returned its text
C21_Witness ==
    \E s \in DOMAIN pc :
        /\ gen[s].kind = "text"
        /\ gen[s].status = "returned"
        /\ gen[s].events = <<"error", "sleep_1s", "ok">>
        /\ gen[s].result \in Answers
        /\ response[s] = gen[s].result

\* describe_image succeeded at its first request: one request, no sleep
FirstTrySuccessReached ==
    \E s \in DOMAIN pc :
        /\ gen[s].kind = "vision"
        /\ gen[s].status = "returned"
        /\ gen[s].events = <<"ok">>
        /\ gen[s].result \in ImageTexts

-----------------------------------------------------------------------------
(* Termination of a query (SpecTerm) *)

Intermediate ==
    {"Embedding", "CacheLookup", "Retrieving", "ContextFetch", "PromptAssembly",
     "Summarizing", "Generating", "CacheWrite"}

\* the query of session s has ended: at Done with an answer, or stopped
\* with the error of the embedding
Ended(s) ==
    \/ pc[s] = "Done" /\ response[s] # ""
    \/ pc[s] = "Error" /\ query_embedding[s] = <<>>

\* C22: a run is never anywhere but idle, at a stage of the handler, at
\* Done or at the error of the embedding, and from every stage of the
\* handler it gets to Done with an answer or to that error, whatever the
\* backends do.
C22_QueryTerminates ==
    /\ [](\A s \in DOMAIN pc : pc[s] \in Intermediate \cup {"Idle", "Done", "Error"})
    /\ \A s \in {"s1"} : (pc[s] \in Intermediate) ~> Ended(s)

\* Done after the worst run: the cache scan, the vector search and the
\* cache write failed, and the summary call and the answer call both used
\* up their retries
C22_Witness ==
    \E s \in DOMAIN pc :
        /\ pc[s] = "Done"
        /\ Ran(s, "vector_search_error")
        /\ Count(s, "summary_request") = TEXT_MAX_RETRIES
        /\ Count(s, "generate_request") = TEXT_MAX_RETRIES
        /\ Last(stages[s]) = "cache_write_error"
        /\ IsFallback(response[s])

\* a blank query stopped at the embedding
BlankQueryStopped ==
    \E s \in DOMAIN pc : pc[s] = "Error" /\ IsBlank(prompt[s])

====
